---- MODULE Spec2Model ----
(***************************************************************************)
(* Daily-task carry-forward engine and completion flow.                    *)
(*                                                                         *)
(* The Tasks page (src/unnamed/part_000) runs, at mount, fetchUserTimezone *)
(* then carryForwardTasks then fetchTasks; each TaskCard                   *)
(* (src/src/components/tasks/TaskCard.tsx) can run handleComplete.  The    *)
(* task store and the profile store are shared by every session (browser   *)
(* tab / device) of the user.                                              *)
(*                                                                         *)
(* Time: a UTC instant is a number of minutes since 00:00 UTC of day 0; a  *)
(* calendar date ('yyyy-MM-dd') is its day number; a wall-clock time of    *)
(* day is a number of minutes since local midnight.                        *)
(***************************************************************************)
EXTENDS Integers, Sequences, FiniteSets, TLC

\* Absent values: a null string, a null number, a null storage path.
Null == "null"
None == 0 - 1
NoPath == <<>>

\* ------------------------------------------------------------- bounds
\* Number of clock steps (of TickMinutes each) a behaviour may take.
MaxTicks == 1
\* Number of times the Tasks page is mounted, all sessions together.
MaxMounts == 2
\* Number of times a user presses "Complete Task", all sessions together.
MaxCompletions == 1

\* ------------------------------------------------------ model universe
Sessions == {"A", "B"}
User == "u1"
OtherUser == "u2"
UserTasks == {"t1", "t2"}
TaskIds == UserTasks \cup {"t3"}

MinutesPerDay == 24 * 60
TickMinutes == MinutesPerDay
\* The clock starts at 20:00 UTC of day 3.
StartMinute == 3 * MinutesPerDay + 20 * 60
MaxNow == StartMinute + MaxTicks * TickMinutes

\* ------------------------------------------------------------ timezone
\* UTC offset, in minutes, of the zones the model uses.
Offset(zone) == IF zone = "Asia/Kolkata" THEN 330 ELSE 0

\* getUserTimezone: profileTimezone || 'UTC'  ('' and null are falsy).
getUserTimezone(profileTimezone) ==
    IF profileTimezone = Null \/ profileTimezone = "" THEN "UTC" ELSE profileTimezone

\* DateTime.setZone(zone): the local calendar day and wall-clock minute of an instant.
LocalDay(instant, zone) == (instant + Offset(zone)) \div MinutesPerDay
TimeOfDay(instant, zone) == (instant + Offset(zone)) % MinutesPerDay

\* DateTime.fromISO / fromFormat(..., {zone}).toUTC(): local date + wall clock -> instant.
LocalToUtc(day, minuteOfDay, zone) == day * MinutesPerDay + minuteOfDay - Offset(zone)

\* localToUtcISO(localInput, timezone): localInput is a local datetime, given
\* here as minutes since local day 0 00:00.
localToUtcISO(localInput, zone) ==
    LocalToUtc(localInput \div MinutesPerDay, localInput % MinutesPerDay, zone)

\* startOfTodayInZone(timezone): DateTime.now().setZone(tz).startOf('day'),
\* as the pair of the local date and the instant of its local midnight.
startOfTodayInZone(clock, zone) ==
    [day |-> LocalDay(clock, zone),
     instant |-> LocalToUtc(LocalDay(clock, zone), 0, zone)]


\* --------------------------------------------------------------- state
VARIABLES
    now,            \* clock source: the current UTC instant
    tasks,          \* the task store: one row per task id
    profile,        \* profiles.timezone of the user (a zone name or Null)
    storage,        \* object storage bucket "task-images": the stored paths
    pc,             \* per session: where the Tasks page is in initializeTasks
    authUser,       \* per session: what getUser answers during initializeTasks
    userTimezone,   \* per session: the React state userTimezone
    today,          \* per session: the pass's todayStart (local date, instant)
    pendingTasks,   \* per session: the candidate rows the pass read
    inflight,       \* per session: row updates dispatched and not yet settled
    failed,         \* per session: row updates of the pass that returned an error
    logged,         \* per session: the pass's catch block ran (console.error)
    taskList,       \* per session: the React state tasks (the fetched list)
    toast,          \* per session: the last notification shown (its text)
    hc,             \* per session: the completion flow of the open TaskCard
    mounts,         \* how many times the page was mounted
    completions,    \* how many times handleComplete was started
    created,        \* history: the rows as they were created
    rolledDay       \* history: today of the last pass whose updates all applied

vars == <<now, tasks, profile, storage, pc, authUser, userTimezone, today, pendingTasks,
          inflight, failed, logged, taskList, toast, hc, mounts, completions, created,
          rolledDay>>

sessionVars == <<pc, authUser, userTimezone, today, pendingTasks, inflight, failed, logged,
                 taskList, toast, hc>>

NoToday == [day |-> None, instant |-> None]
NoCandidates == [t \in {} |-> Null]

\* The completion flow at rest.
HcIdle ==
    [stage |-> "none", id |-> Null, end_time |-> None, minutes |-> None,
     image |-> FALSE, imagePath |-> NoPath]

\* A task row as created by the add-task page: task_date is the local date of
\* start_time in the profile's timezone, nothing of the completion is set.
NewRow(owner, day, minuteOfDay, missed, zone) ==
    [user_id |-> owner,
     title |-> "title",
     description |-> Null,
     status |-> "pending",
     task_date |-> day,
     start_time |-> LocalToUtc(day, minuteOfDay, zone),
     consecutive_missed_days |-> missed,
     end_time |-> None,
     total_time_minutes |-> None,
     image_path |-> NoPath]

Init ==
    /\ now = StartMinute
    /\ profile \in {Null, "Asia/Kolkata"}
    /\ tasks = [t \in TaskIds |->
                    CASE t = "t1" -> NewRow(User, 3, 19 * 60, 0, getUserTimezone(profile))
                      [] t = "t2" -> NewRow(User, 1, 2 * 60, 0, getUserTimezone(profile))
                      [] OTHER    -> NewRow(OtherUser, 1, 9 * 60, 0, "UTC")]
    /\ created = tasks
    /\ rolledDay = None
    /\ storage = {}
    /\ pc = [s \in Sessions |-> "unmounted"]
    /\ authUser = [s \in Sessions |-> Null]
    /\ userTimezone = [s \in Sessions |-> "UTC"]
    /\ today = [s \in Sessions |-> NoToday]
    /\ pendingTasks = [s \in Sessions |-> NoCandidates]
    /\ inflight = [s \in Sessions |-> {}]
    /\ failed = [s \in Sessions |-> {}]
    /\ logged = [s \in Sessions |-> FALSE]
    /\ taskList = [s \in Sessions |-> <<>>]
    /\ mounts = 0
    /\ completions = 0
    /\ toast = [s \in Sessions |-> "none"]
    /\ hc = [s \in Sessions |-> HcIdle]

\* ------------------------------------------------------------- clock
Tick ==
    /\ now + TickMinutes <= MaxNow
    /\ now' = now + TickMinutes
    /\ UNCHANGED <<tasks, profile, storage, created, rolledDay, mounts, completions,
                   sessionVars>>

\* ------------------------------------------------- Tasks page: mount
\* fetchUserTimezone: the new userTimezone state; setUserTimezone is called
\* only when there is a user and the profile has a truthy timezone.
fetchUserTimezone(user, current) ==
    IF user # Null /\ profile # Null /\ profile # "" THEN profile ELSE current

\* The component mounts (useState initial values), the effect calls
\* initializeTasks, and fetchUserTimezone completes.  supabase.auth.getUser()
\* answers the same for the whole of initializeTasks: the signed-in user, or
\* nobody.  The page can be mounted again once it is at rest.
Mount(s) ==
    /\ pc[s] \in {"unmounted", "ready"}
    /\ hc[s].stage = "none"
    /\ mounts < MaxMounts
    /\ mounts' = mounts + 1
    /\ \E user \in {Null, User} :
         /\ authUser' = [authUser EXCEPT ![s] = user]
         /\ userTimezone' = [userTimezone EXCEPT ![s] = fetchUserTimezone(user, "UTC")]
    /\ pc' = [pc EXCEPT ![s] = "cf"]
    /\ taskList' = [taskList EXCEPT ![s] = <<>>]
    /\ today' = [today EXCEPT ![s] = NoToday]
    /\ pendingTasks' = [pendingTasks EXCEPT ![s] = NoCandidates]
    /\ failed' = [failed EXCEPT ![s] = {}]
    /\ logged' = [logged EXCEPT ![s] = FALSE]
    /\ toast' = [toast EXCEPT ![s] = "none"]
    /\ hc' = [hc EXCEPT ![s] = HcIdle]
    /\ UNCHANGED <<now, tasks, profile, storage, created, rolledDay, inflight,
                   completions>>

\* The userTimezone that carryForwardTasks and the first fetchTasks see: they
\* are the closures of the render that ran the mount effect, where the state
\* still has its initial value.
MountTimezone == "UTC"


\* ------------------------------------------------ carryForwardTasks
\* Variant: the candidate query with .lte in place of .lt, which also selects
\* the rows already dated today.
CandidatesThroughToday(user, day) ==
    {t \in TaskIds : /\ tasks[t].user_id = user
                     /\ tasks[t].status = "pending"
                     /\ tasks[t].task_date <= day}

\* The candidate query: .eq("user_id", user.id).eq("status", "pending")
\* .lt("task_date", today), selecting id, task_date, consecutive_missed_days,
\* start_time.
Candidates(user, day) ==
    {t \in TaskIds : /\ tasks[t].user_id = user
                     /\ tasks[t].status = "pending"
                     /\ tasks[t].task_date < day}

SelectCandidates(user, day) ==
    [t \in Candidates(user, day) |->
        [task_date |-> tasks[t].task_date,
         consecutive_missed_days |-> tasks[t].consecutive_missed_days,
         start_time |-> tasks[t].start_time]]

\* Math.floor(todayStart.diff(DateTime.fromISO(task.task_date, {zone}), 'days').days)
DaysMissed(todayStart, taskDate, zone) ==
    (todayStart.instant - LocalToUtc(taskDate, 0, zone)) \div MinutesPerDay

\* task.consecutive_missed_days || 0
OrZero(n) == IF n = None THEN 0 ELSE n

\* The new start_time: today's date + the wall-clock time of the old start_time
\* in the zone, converted back to UTC.
NewStartTime(todayStart, startTime, zone) ==
    LocalToUtc(todayStart.day, TimeOfDay(startTime, zone), zone)

\* Variant: the count restarted at each pass (daysMissed alone).
RolloverFieldsReset(todayStart, task, zone) ==
    [task_date |-> todayStart.day,
     start_time |-> NewStartTime(todayStart, task.start_time, zone),
     consecutive_missed_days |-> DaysMissed(todayStart, task.task_date, zone)]

\* The fields of one row update, computed from the row as the pass read it.
RolloverFields(todayStart, task, zone) ==
    [task_date |-> todayStart.day,
     start_time |-> NewStartTime(todayStart, task.start_time, zone),
     consecutive_missed_days |->
         OrZero(task.consecutive_missed_days)
           + DaysMissed(todayStart, task.task_date, zone)]

\* Variant: an update that leaves task_date out.
ApplyRolloverKeepsDate(row, fields) ==
    [row EXCEPT !.start_time = fields.start_time,
                !.consecutive_missed_days = fields.consecutive_missed_days]

\* Variant: an update of task_date alone.
ApplyRolloverDateOnly(row, fields) ==
    [row EXCEPT !.task_date = fields.task_date]

\* Variant: an update that adds the computed count to the stored one instead
\* of storing it.
ApplyRolloverIncrement(row, fields) ==
    [row EXCEPT !.task_date = fields.task_date,
                !.start_time = fields.start_time,
                !.consecutive_missed_days = @ + fields.consecutive_missed_days]

\* .update({...}).eq("id", task.id): the row with that id takes the fields.
ApplyRollover(row, fields) ==
    [row EXCEPT !.task_date = fields.task_date,
                !.start_time = fields.start_time,
                !.consecutive_missed_days = fields.consecutive_missed_days]

\* The pass up to Promise.all: getUser, today, the candidate query, and the
\* dispatch of one update per candidate.
CarryForwardRead(s) ==
    /\ pc[s] = "cf"
    /\ \E fetchError \in BOOLEAN :
         LET user == authUser[s]
             todayStart == startOfTodayInZone(now, MountTimezone)
             found == SelectCandidates(user, todayStart.day)
         IN  IF user = Null
             THEN \* if (!user) return
                  /\ pc' = [pc EXCEPT ![s] = "ft"]
                  /\ UNCHANGED <<today, pendingTasks, inflight, logged, rolledDay>>
             ELSE IF fetchError
             THEN \* throw fetchError -> catch -> console.error
                  /\ pc' = [pc EXCEPT ![s] = "ft"]
                  /\ today' = [today EXCEPT ![s] = todayStart]
                  /\ logged' = [logged EXCEPT ![s] = TRUE]
                  /\ UNCHANGED <<pendingTasks, inflight, rolledDay>>
             ELSE /\ today' = [today EXCEPT ![s] = todayStart]
                  /\ pendingTasks' = [pendingTasks EXCEPT ![s] = found]
                  /\ inflight' = [inflight EXCEPT ![s] = DOMAIN found]
                  /\ pc' = [pc EXCEPT ![s] =
                              IF DOMAIN found = {} THEN "ft" ELSE "cf_upd"]
                  /\ rolledDay' = IF DOMAIN found = {} THEN todayStart.day
                                  ELSE rolledDay
                  /\ UNCHANGED logged
    /\ UNCHANGED <<mounts, completions, authUser, now, tasks, profile, storage, created, userTimezone, failed,
                   taskList, toast, hc>>

\* Variant: updates that reject on error, so that Promise.all rejects at the
\* first failure and the pass stops waiting for the rest.
AfterSettleFailFast(s, left, ok) == IF left = {} \/ ~ok THEN "ft" ELSE "cf_upd"

\* Variant: the pass returning without awaiting Promise.all.
AfterSettleEager(s, left, ok) == "ft"

\* What Promise.all(updates) does when an update settles: updates resolve with
\* {error} and never reject, so the pass goes on until every update has settled.
AfterSettle(s, left, ok) == IF left = {} THEN "ft" ELSE "cf_upd"

\* Variant: an update that returns its error after the row has taken the new
\* task_date.
CarryForwardUpdateLossy(s, t, ok) ==
    /\ pc[s] = "cf_upd"
    /\ t \in inflight[s]
    /\ LET fields == RolloverFields(today[s], pendingTasks[s][t], MountTimezone)
       IN  tasks' = IF ok THEN [tasks EXCEPT ![t] = ApplyRollover(@, fields)]
                    ELSE [tasks EXCEPT ![t].task_date = fields.task_date]
    /\ failed' = [failed EXCEPT ![s] = IF ok THEN @ ELSE @ \cup {t}]
    /\ inflight' = [inflight EXCEPT ![s] = @ \ {t}]
    /\ pc' = [pc EXCEPT ![s] = AfterSettle(s, inflight[s] \ {t}, ok)]
    /\ rolledDay' = IF inflight[s] = {t} /\ ok /\ failed[s] = {}
                    THEN today[s].day ELSE rolledDay
    /\ UNCHANGED <<mounts, completions, authUser, now, profile, storage, created, userTimezone, today,
                   pendingTasks, logged, taskList, toast, hc>>

\* One dispatched row update settles: the store applies it, or returns an error.
CarryForwardUpdate(s, t, ok) ==
    /\ pc[s] = "cf_upd"
    /\ t \in inflight[s]
    /\ LET fields == RolloverFields(today[s], pendingTasks[s][t], MountTimezone)
       IN  tasks' = IF ok THEN [tasks EXCEPT ![t] = ApplyRollover(@, fields)]
                    ELSE tasks
    /\ failed' = [failed EXCEPT ![s] = IF ok THEN @ ELSE @ \cup {t}]
    /\ inflight' = [inflight EXCEPT ![s] = @ \ {t}]
    /\ pc' = [pc EXCEPT ![s] = AfterSettle(s, inflight[s] \ {t}, ok)]
    /\ rolledDay' = IF inflight[s] = {t} /\ ok /\ failed[s] = {}
                    THEN today[s].day ELSE rolledDay
    /\ UNCHANGED <<mounts, completions, authUser, now, profile, storage, created, userTimezone, today,
                   pendingTasks, logged, taskList, toast, hc>>


\* ------------------------------------------------------- fetchTasks
\* .eq("user_id", user.id).eq("task_date", today): the rows of the list.
TodaysTasks(user, day) ==
    {t \in TaskIds : tasks[t].user_id = user /\ tasks[t].task_date = day}

\* select("*"): the row with its id.
ListRow(t) ==
    [id |-> t,
     title |-> tasks[t].title,
     description |-> tasks[t].description,
     status |-> tasks[t].status,
     task_date |-> tasks[t].task_date,
     start_time |-> tasks[t].start_time,
     consecutive_missed_days |-> tasks[t].consecutive_missed_days,
     end_time |-> tasks[t].end_time,
     total_time_minutes |-> tasks[t].total_time_minutes,
     image_path |-> tasks[t].image_path]

\* .order("start_time", {ascending: true}): every sequence of the rows, each
\* once, with start_time non-decreasing (the order of equal keys is not fixed).
OrderedByStartTime(ids) ==
    {q \in [1..Cardinality(ids) -> {ListRow(t) : t \in ids}] :
        /\ \A i, j \in DOMAIN q : i < j => q[i].start_time <= q[j].start_time
        /\ \A i, j \in DOMAIN q : i # j => q[i].id # q[j].id}

\* Variant: fetchTasks without the "if (!user) return" guard.
fetchTasksUnguarded(s, zone, user) ==
    /\ \E error \in BOOLEAN :
         LET day == startOfTodayInZone(now, zone).day
         IN  IF error
             THEN /\ toast' = [toast EXCEPT ![s] = "Error: fetch"]
                  /\ UNCHANGED taskList
             ELSE /\ \E q \in OrderedByStartTime(TodaysTasks(user, day)) :
                        taskList' = [taskList EXCEPT ![s] = q]
                  /\ UNCHANGED toast
    /\ pc' = [pc EXCEPT ![s] = "ready"]
    /\ UNCHANGED <<rolledDay, mounts, completions, now, tasks, profile, storage,
                   created, userTimezone, inflight, hc>>

\* fetchTasks as the closure of a render whose userTimezone is zone.
fetchTasks(s, zone, user) ==
    /\ \E error \in BOOLEAN :
         LET day == startOfTodayInZone(now, zone).day
         IN  IF user = Null
             THEN \* if (!user) return
                  UNCHANGED <<taskList, toast>>
             ELSE IF error
             THEN /\ toast' = [toast EXCEPT ![s] = "Error: fetch"]
                  /\ UNCHANGED taskList
             ELSE /\ \E q \in OrderedByStartTime(TodaysTasks(user, day)) :
                        taskList' = [taskList EXCEPT ![s] = q]
                  /\ UNCHANGED toast
    /\ pc' = [pc EXCEPT ![s] = "ready"]
    /\ UNCHANGED <<rolledDay, mounts, completions, now, tasks, profile, storage,
                   created, userTimezone, inflight, hc>>

\* initializeTasks: await fetchTasks() after the pass.
InitialFetch(s) ==
    /\ pc[s] = "ft"
    /\ fetchTasks(s, MountTimezone, authUser[s])
    /\ authUser' = [authUser EXCEPT ![s] = Null]
    \* carryForwardTasks has returned: its locals are gone
    /\ today' = [today EXCEPT ![s] = NoToday]
    /\ pendingTasks' = [pendingTasks EXCEPT ![s] = NoCandidates]
    /\ failed' = [failed EXCEPT ![s] = {}]
    /\ logged' = [logged EXCEPT ![s] = FALSE]

\* onRefresh={fetchTasks}: the list is rendered after userTimezone was set, so
\* the card holds the fetchTasks of a render with the current userTimezone.
RefreshFetch(s) ==
    /\ pc[s] = "refresh"
    /\ \E user \in {Null, User} : fetchTasks(s, userTimezone[s], user)
    /\ UNCHANGED <<authUser, today, pendingTasks, failed, logged>>

\* ------------------------------------------- TaskCard: handleComplete
\* calculateTaskDuration(start, end, timezone) of utils/taskDuration: whole
\* minutes from start to end; an end before the start is a validation error.
calculateTaskDuration(startTime, endTime, zone) ==
    IF endTime < startTime
    THEN [threw |-> TRUE, minutes |-> None]
    ELSE [threw |-> FALSE, minutes |-> endTime - startTime]

\* `${user.id}/${task.id}-completion-${Date.now()}.${fileExt}`, without the
\* timestamp and the extension, which nothing reads back.
FileName(user, id) == <<user, id>>

\* What the user may type in the datetime-local field of the card: the current
\* local time (its initial value), or an hour before the task's local start.
CompletionInputs(card, zone) ==
    {now + Offset(zone), card.start_time + Offset(zone) - 60}

\* Variant: the duration's validation error ignored.
CompleteStageUnchecked(duration, image) ==
    IF image THEN "upload" ELSE "update"

\* What handleComplete does once the duration is known: nothing but the error
\* toast when calculateTaskDuration threw, else on to the upload or the update.
CompleteStage(duration, image) ==
    IF duration.threw THEN "none"
    ELSE IF image THEN "upload" ELSE "update"

\* handleComplete up to its first await.
HandleComplete(s, i, localInput, image) ==
    /\ pc[s] = "ready"
    /\ hc[s].stage = "none"
    /\ i \in DOMAIN taskList[s]
    /\ taskList[s][i].status = "pending"
    /\ localInput \in CompletionInputs(taskList[s][i], userTimezone[s])
    /\ LET task == taskList[s][i]
           utcCompletionTime == localToUtcISO(localInput, userTimezone[s])
           durationMinutes ==
               calculateTaskDuration(task.start_time, utcCompletionTime, userTimezone[s])
           stage == CompleteStage(durationMinutes, image)
       IN  /\ hc' = [hc EXCEPT ![s] =
                       IF stage = "none" THEN HcIdle
                       ELSE [stage |-> stage,
                             id |-> task.id,
                             end_time |-> utcCompletionTime,
                             minutes |-> durationMinutes.minutes,
                             image |-> image,
                             imagePath |-> task.image_path]]
           /\ toast' = [toast EXCEPT ![s] =
                          IF stage = "none" THEN "Error: validation" ELSE @]
    /\ completions < MaxCompletions
    \* the sessions are interchangeable: call "A" the one of the first completion
    /\ completions = 0 => s = "A"
    /\ completions' = completions + 1
    /\ UNCHANGED <<rolledDay, mounts, authUser, now, tasks, profile, storage, created, pc, userTimezone,
                   today, pendingTasks, inflight, failed, logged, taskList>>

\* Variant: the upload's outcome ignored.
AfterUploadUnchecked(user, uploadError) == "update"

\* What the upload step leaves as the flow's next stage.
AfterUpload(user, uploadError) ==
    IF user = Null \/ uploadError THEN "none" ELSE "update"

\* getUser and the upload of the completion image.
CompleteUpload(s) ==
    /\ hc[s].stage = "upload"
    /\ \E user \in {Null, User}, uploadError \in BOOLEAN :
         /\ storage' = IF user # Null /\ ~uploadError
                       THEN storage \cup {FileName(user, hc[s].id)}
                       ELSE storage
         /\ IF AfterUpload(user, uploadError) = "none"
            THEN \* throw new Error("Not authenticated") / throw uploadError
                 /\ hc' = [hc EXCEPT ![s] = HcIdle]
                 /\ toast' = [toast EXCEPT ![s] =
                                IF user = Null THEN "Error: Not authenticated"
                                ELSE "Error: upload"]
            ELSE /\ hc' = [hc EXCEPT ![s].stage = "update",
                                     ![s].imagePath = FileName(user, hc[s].id)]
                 /\ UNCHANGED toast
    /\ UNCHANGED <<rolledDay, mounts, completions, authUser, now, tasks, profile, created, pc, userTimezone, today,
                   pendingTasks, inflight, failed, logged, taskList>>

\* Variant: a completion that also resets the missed-days counter.
ApplyCompletionResetsCount(row, flow) ==
    [row EXCEPT !.status = "completed",
                !.end_time = flow.end_time,
                !.total_time_minutes = flow.minutes,
                !.image_path = flow.imagePath,
                !.consecutive_missed_days = 0]

\* .update({status, end_time, total_time_minutes, image_path}).eq("id", task.id)
ApplyCompletion(row, flow) ==
    [row EXCEPT !.status = "completed",
                !.end_time = flow.end_time,
                !.total_time_minutes = flow.minutes,
                !.image_path = flow.imagePath]

\* The row update of the completion settles; on success the list is refreshed.
CompleteUpdate(s, ok) ==
    /\ hc[s].stage = "update"
    /\ IF ok
       THEN /\ tasks' = [tasks EXCEPT ![hc[s].id] = ApplyCompletion(@, hc[s])]
            /\ toast' = [toast EXCEPT ![s] = "Task completed!"]
            /\ pc' = [pc EXCEPT ![s] = "refresh"]
       ELSE /\ toast' = [toast EXCEPT ![s] = "Error: update"]
            /\ UNCHANGED <<tasks, pc>>
    /\ hc' = [hc EXCEPT ![s] = HcIdle]
    /\ UNCHANGED <<rolledDay, mounts, completions, authUser, now, profile, storage, created, userTimezone, today,
                   pendingTasks, inflight, failed, logged, taskList>>

\* ------------------------------------------------- getTaskStatusInfo
\* Variant: the Overdue threshold as > 3.
getTaskStatusInfoAbove3(task) ==
    IF task.status = "completed"
    THEN [label |-> "Completed", days |-> None]
    ELSE IF task.consecutive_missed_days > 3
    THEN [label |-> "Overdue", days |-> task.consecutive_missed_days]
    ELSE IF task.consecutive_missed_days > 0
    THEN [label |-> "Carried", days |-> task.consecutive_missed_days]
    ELSE [label |-> "Pending", days |-> None]

\* The badge of a task: the label's kind and the day count it shows.
getTaskStatusInfo(task) ==
    IF task.status = "completed"
    THEN [label |-> "Completed", days |-> None]
    ELSE IF task.consecutive_missed_days >= 3
    THEN [label |-> "Overdue", days |-> task.consecutive_missed_days]
    ELSE IF task.consecutive_missed_days > 0
    THEN [label |-> "Carried", days |-> task.consecutive_missed_days]
    ELSE [label |-> "Pending", days |-> None]

\* The rows the page renders: every row of every session's list.
RenderedRows == UNION {{taskList[s][i] : i \in DOMAIN taskList[s]} : s \in Sessions}

\* ------------------------------------------------------ specification
Next ==
    \/ Tick
    \/ \E s \in Sessions : Mount(s)
    \/ \E s \in Sessions : CarryForwardRead(s)
    \/ \E s \in Sessions : \E t \in TaskIds, ok \in BOOLEAN : CarryForwardUpdate(s, t, ok)
    \/ \E s \in Sessions : InitialFetch(s)
    \/ \E s \in Sessions : RefreshFetch(s)
    \/ \E s \in Sessions : \E i \in DOMAIN taskList[s], image \in BOOLEAN :
          \E localInput \in CompletionInputs(taskList[s][i], userTimezone[s]) :
             HandleComplete(s, i, localInput, image)
    \/ \E s \in Sessions : CompleteUpload(s)
    \/ \E s \in Sessions : \E ok \in BOOLEAN : CompleteUpdate(s, ok)

Spec == Init /\ [][Next]_vars

\* The same program with the reconciliation passes of the sessions one at a
\* time: a pass starts only when no other session's pass is between its read
\* and the settling of its updates.  Everything else interleaves freely.
PassRunning(s) == pc[s] = "cf_upd"

CarryForwardReadAlone(s) ==
    /\ \A o \in Sessions \ {s} : ~PassRunning(o)
    /\ CarryForwardRead(s)

NextSeq ==
    \/ Tick
    \/ \E s \in Sessions : Mount(s)
    \/ \E s \in Sessions : CarryForwardReadAlone(s)
    \/ \E s \in Sessions : \E t \in TaskIds, ok \in BOOLEAN : CarryForwardUpdate(s, t, ok)
    \/ \E s \in Sessions : InitialFetch(s)
    \/ \E s \in Sessions : RefreshFetch(s)
    \/ \E s \in Sessions : \E i \in DOMAIN taskList[s], image \in BOOLEAN :
          \E localInput \in CompletionInputs(taskList[s][i], userTimezone[s]) :
             HandleComplete(s, i, localInput, image)
    \/ \E s \in Sessions : CompleteUpload(s)
    \/ \E s \in Sessions : \E ok \in BOOLEAN : CompleteUpdate(s, ok)

SpecSeq == Init /\ [][NextSeq]_vars


\* The page's start-up with every kind of stored timezone value: absent, empty,
\* a valid identifier, and a string that names no timezone.  The tasks were
\* created while the profile had no timezone.  Only the steps of
\* initializeTasks are taken: they run with the userTimezone of the first
\* render, whatever the profile holds.
ValidZones == {"UTC", "Asia/Kolkata"}
TimezoneInputs == {Null, "", "Asia/Kolkata", "Mars/Phobos"}

InitTz ==
    /\ now = StartMinute
    /\ profile \in TimezoneInputs
    /\ tasks = [t \in TaskIds |->
                    CASE t = "t1" -> NewRow(User, 3, 19 * 60, 0, "UTC")
                      [] t = "t2" -> NewRow(User, 1, 2 * 60, 0, "UTC")
                      [] OTHER    -> NewRow(OtherUser, 1, 9 * 60, 0, "UTC")]
    /\ created = tasks
    /\ rolledDay = None
    /\ storage = {}
    /\ pc = [s \in Sessions |-> "unmounted"]
    /\ authUser = [s \in Sessions |-> Null]
    /\ userTimezone = [s \in Sessions |-> "UTC"]
    /\ today = [s \in Sessions |-> NoToday]
    /\ pendingTasks = [s \in Sessions |-> NoCandidates]
    /\ inflight = [s \in Sessions |-> {}]
    /\ failed = [s \in Sessions |-> {}]
    /\ logged = [s \in Sessions |-> FALSE]
    /\ taskList = [s \in Sessions |-> <<>>]
    /\ mounts = 0
    /\ completions = 0
    /\ toast = [s \in Sessions |-> "none"]
    /\ hc = [s \in Sessions |-> HcIdle]

NextTz ==
    \/ Tick
    \/ \E s \in Sessions : Mount(s)
    \/ \E s \in Sessions : CarryForwardRead(s)
    \/ \E s \in Sessions : \E t \in TaskIds, ok \in BOOLEAN : CarryForwardUpdate(s, t, ok)
    \/ \E s \in Sessions : InitialFetch(s)

SpecTz == InitTz /\ [][NextTz]_vars

\* =====================================================================
\* Properties
\* =====================================================================

\* A pass of session s has returned with a user, the candidate query answered
\* and no row update failed.
PassSucceeded(s) ==
    /\ pc[s] = "ft"
    /\ authUser[s] # Null
    /\ ~logged[s]
    /\ failed[s] = {}

\* ---------------------------------------------------------------- C1
\* C1: after a reconciliation pass of an authenticated user in which the
\* candidate query and every row update succeeded, every task of that user
\* that was pending with task_date < today when the pass read it has
\* task_date = today.  Two parts, both on every step: the rows the pass reads
\* as candidates are exactly the user's pending rows dated before today, and
\* at the step on which the pass returns every candidate row is dated today.
C1_CandidatesRead(s) ==
    (pc[s] = "cf" /\ pc'[s] # "cf" /\ authUser[s] # Null /\ ~logged'[s])
       => DOMAIN pendingTasks'[s] =
             {t \in TaskIds : /\ tasks[t].user_id = authUser[s]
                              /\ tasks[t].status = "pending"
                              /\ tasks[t].task_date < today'[s].day}

C1_AllRolled(s) ==
    (pc[s] # "ft" /\ PassSucceeded(s)') =>
        \A t \in DOMAIN pendingTasks'[s] : tasks'[t].task_date = today'[s].day

C2_WriteAdds(s, t) ==
    CarryForwardUpdate(s, t, TRUE) =>
        /\ pendingTasks[s][t].consecutive_missed_days
              = tasks[t].consecutive_missed_days
        /\ pendingTasks[s][t].task_date = tasks[t].task_date
        /\ tasks'[t].consecutive_missed_days =
              tasks[t].consecutive_missed_days + (today[s].day - tasks[t].task_date)

C2_Accumulated(t) ==
    tasks'[t].consecutive_missed_days =
        created[t].consecutive_missed_days
          + (tasks'[t].task_date - created[t].task_date)

C2_MissedDaysAdditive ==
    [][/\ \A s \in Sessions, t \in TaskIds : C2_WriteAdds(s, t)
       /\ \A t \in TaskIds : C2_Accumulated(t)]_vars

\* A pass has just rolled, by one day, a task that an earlier pass had already
\* rolled by two: its count is 3.
C2_Witness ==
    \E s \in Sessions :
        /\ pc[s] = "ft"
        /\ "t2" \in DOMAIN pendingTasks[s]
        /\ "t2" \notin failed[s]
        /\ pendingTasks[s]["t2"].task_date > created["t2"].task_date
        /\ tasks["t2"].task_date = today[s].day
        /\ tasks["t2"].consecutive_missed_days = 3

\* ---------------------------------------------------------------- C3
\* C3: no write of carryForwardTasks lowers the stored
\* consecutive_missed_days of a task, whatever the sessions and interleaving.
C3_MissedDaysNeverDecrease ==
    [][\A t \in TaskIds :
          tasks'[t].consecutive_missed_days >= tasks[t].consecutive_missed_days]_vars

\* ---------------------------------------------------------------- C4
\* C4: a pass run on a local day on which an earlier pass has completed with
\* all its updates applied reads no candidate and dispatches no update, so it
\* leaves the store as it found it; no pass writes a row whose task_date is
\* already its today.
C4_SecondPassReadsNothing(s) ==
    (pc[s] = "cf" /\ pc'[s] # "cf" /\ today'[s].day = rolledDay) =>
        /\ DOMAIN pendingTasks'[s] = {}
        /\ inflight'[s] = {}
        /\ pc'[s] = "ft"
        /\ tasks' = tasks

C4_NoWriteAtToday(s, t) ==
    (CarryForwardUpdate(s, t, TRUE) /\ tasks[t].task_date = today[s].day) =>
        tasks' = tasks

C4_Idempotent ==
    [][/\ \A s \in Sessions : C4_SecondPassReadsNothing(s)
       /\ \A s \in Sessions, t \in TaskIds : C4_NoWriteAtToday(s, t)]_vars

\* A second pass has returned, having read no candidate, on the day on which an
\* earlier pass rolled both tasks.
C4_Witness ==
    \E s \in Sessions :
        /\ pc[s] = "ft"
        /\ authUser[s] # Null
        /\ ~logged[s]
        /\ today[s].day = rolledDay
        /\ DOMAIN pendingTasks[s] = {}
        /\ \A t \in UserTasks :
              /\ tasks[t].task_date = rolledDay
              /\ tasks[t].consecutive_missed_days > 0


\* ---------------------------------------------------------------- C5
\* C5: no step changes task_date, start_time or consecutive_missed_days of a
\* row whose stored status is completed (the completion flow never writes these
\* fields, so only a rollover write could).
C5_CompletedNeverRolled ==
    [][\A t \in TaskIds :
          tasks[t].status = "completed" =>
              /\ tasks'[t].task_date = tasks[t].task_date
              /\ tasks'[t].start_time = tasks[t].start_time
              /\ tasks'[t].consecutive_missed_days
                    = tasks[t].consecutive_missed_days]_vars

\* ---------------------------------------------------------------- C6
\* C6: when two sessions ran their passes for the same local day and both
\* read, and have both written, the same task, the task's
\* consecutive_missed_days is what either pass read plus daysMissed, counted
\* once.
Wrote(s, t) ==
    /\ pc[s] \in {"cf_upd", "ft"}
    /\ t \in DOMAIN pendingTasks[s]
    /\ t \notin inflight[s]
    /\ t \notin failed[s]

C6_CountedOnce ==
    \A s \in Sessions, o \in Sessions, t \in TaskIds :
        (s # o /\ Wrote(s, t) /\ Wrote(o, t) /\ today[s].day = today[o].day) =>
            tasks[t].consecutive_missed_days =
                pendingTasks[s][t].consecutive_missed_days
                  + (today[s].day - pendingTasks[s][t].task_date)

\* Both sessions read the same stale row before either wrote, and both wrote.
C6_Witness ==
    \E s \in Sessions, o \in Sessions :
        /\ s # o
        /\ Wrote(s, "t2") /\ Wrote(o, "t2")
        /\ today[s].day = today[o].day
        /\ pendingTasks[s]["t2"] = pendingTasks[o]["t2"]
        /\ tasks["t2"].consecutive_missed_days = 2

\* ---------------------------------------------------------------- C7
\* C7: getTaskStatusInfo classifies every row, rendered or stored, by exact
\* thresholds: completed -> Completed whatever the count; pending with count
\* >= 3 -> Overdue(count); pending with count 1 or 2 -> Carried(count); pending
\* with count 0 -> Pending.
Classified(row) ==
    LET info == getTaskStatusInfo(row)
        n == row.consecutive_missed_days
    IN  /\ row.status = "completed" => info.label = "Completed"
        /\ (row.status = "pending" /\ n >= 3) =>
               info = [label |-> "Overdue", days |-> n]
        /\ (row.status = "pending" /\ n \in {1, 2}) =>
               info = [label |-> "Carried", days |-> n]
        /\ (row.status = "pending" /\ n = 0) => info.label = "Pending"
        /\ info.label \in {"Completed", "Overdue", "Carried", "Pending"}

C7_ClassifierBoundaries ==
    /\ \A row \in RenderedRows : Classified(row)
    /\ \A t \in TaskIds : Classified(tasks[t])

\* A list shows a pending task at the Overdue threshold next to a carried one,
\* and a completed task with a non-zero count is stored.
C7_Witness ==
    /\ \E row \in RenderedRows :
          row.status = "pending" /\ row.consecutive_missed_days = 3
    /\ \E row \in RenderedRows :
          row.status = "pending" /\ row.consecutive_missed_days = 1
    /\ \E t \in TaskIds :
          tasks[t].status = "completed" /\ tasks[t].consecutive_missed_days > 0

\* ---------------------------------------------------------------- C8
\* C8: when handleComplete is given a completion instant earlier than the
\* task's start_time, it reports a validation error and starts neither an
\* upload nor a row update: no row and no stored file changes.
C8_Rejected(s, i, localInput, image) ==
    (/\ HandleComplete(s, i, localInput, image)
     /\ localToUtcISO(localInput, userTimezone[s]) < taskList[s][i].start_time)
    => /\ tasks' = tasks
       /\ storage' = storage
       /\ hc'[s] = HcIdle
       /\ toast'[s] = "Error: validation"
       /\ pc'[s] = "ready"

C8_EndBeforeStartRejected ==
    [][\A s \in Sessions : \A i \in DOMAIN taskList[s], image \in BOOLEAN :
          \A localInput \in CompletionInputs(taskList[s][i], userTimezone[s]) :
             C8_Rejected(s, i, localInput, image)]_vars

\* A completion was tried and rejected: the error is shown, nothing is stored.
C8_Witness ==
    \E s \in Sessions :
        /\ toast[s] = "Error: validation"
        /\ hc[s] = HcIdle
        /\ completions > 0
        /\ \A t \in TaskIds : tasks[t].status = "pending"
        /\ storage = {}

\* ---------------------------------------------------------------- C9
\* C9: with a completion image supplied, a failed upload (or no authenticated
\* user) ends the flow with an error toast and no row update; the row update is
\* reached only after the file has been stored, and then writes that file's path.
C9_UploadStep(s) ==
    CompleteUpload(s) =>
        /\ tasks' = tasks
        /\ hc'[s].stage \in {"none", "update"}
        /\ hc'[s].stage = "none" =>
              /\ storage' = storage
              /\ toast'[s] \in {"Error: Not authenticated", "Error: upload"}
        /\ hc'[s].stage = "update" =>
              /\ hc'[s].imagePath # NoPath
              /\ hc'[s].imagePath \in storage'

C9_UpdateStep(s) ==
    (CompleteUpdate(s, TRUE) /\ hc[s].image) =>
        /\ hc[s].imagePath \in storage
        /\ tasks'[hc[s].id].image_path = hc[s].imagePath

C9_UploadFailureAborts ==
    [][\A s \in Sessions : C9_UploadStep(s) /\ C9_UpdateStep(s)]_vars

\* An upload failed: the error is shown, the flow is over, every row is pending
\* and without end_time.
C9_Witness ==
    \E s \in Sessions :
        /\ toast[s] \in {"Error: Not authenticated", "Error: upload"}
        /\ hc[s] = HcIdle
        /\ completions > 0
        /\ \A t \in TaskIds : tasks[t].status = "pending" /\ tasks[t].end_time = None

\* --------------------------------------------------------------- C10
\* C10: in a pass where a row update has failed, nothing is logged as an error
\* of the pass, every other dispatched update can still settle and a
\* successful one is applied, and once all have settled the pass returns and
\* the list fetch can run.
C10_AfterFailure(s) ==
    failed[s] # {} =>
        /\ ~logged[s]
        /\ pc[s] \in {"cf_upd", "ft"}
        /\ pc[s] = "cf_upd" =>
              /\ inflight[s] # {}
              /\ \A u \in inflight[s] : ENABLED CarryForwardUpdate(s, u, TRUE)
        /\ pc[s] = "ft" =>
              /\ inflight[s] = {}
              /\ ENABLED InitialFetch(s)

C10_StillApplied(s, t) ==
    (CarryForwardUpdate(s, t, TRUE) /\ failed[s] # {}) =>
        /\ tasks'[t].task_date = today[s].day
        /\ failed'[s] = failed[s]

C10_FailedUpdateIsolated ==
    /\ [](\A s \in Sessions : C10_AfterFailure(s))
    /\ [][\A s \in Sessions, t \in TaskIds : C10_StillApplied(s, t)]_vars

\* A pass whose update of t1 failed has rolled t2 and reached the list fetch.
C10_Witness ==
    \E s \in Sessions :
        /\ pc[s] = "ft"
        /\ failed[s] = {"t1"}
        /\ "t2" \in DOMAIN pendingTasks[s]
        /\ tasks["t2"].task_date = today[s].day
        /\ tasks["t1"].task_date < today[s].day

\* --------------------------------------------------------------- C11
\* C11: with nobody signed in, the pass returns without reading candidates or
\* dispatching updates, and the list fetch (at mount or as a refresh) returns
\* without reading the list; neither shows an error, logs one, or changes a row.
C11_PassSkipped(s) ==
    (CarryForwardRead(s) /\ authUser[s] = Null) =>
        /\ pc'[s] = "ft"
        /\ tasks' = tasks
        /\ pendingTasks' = pendingTasks
        /\ inflight'[s] = {}
        /\ today' = today
        /\ logged' = logged
        /\ toast' = toast

C11_FetchSkipped(s) ==
    (InitialFetch(s) /\ authUser[s] = Null) =>
        /\ tasks' = tasks
        /\ taskList' = taskList
        /\ toast' = toast

C11_RefreshSkipped(s) ==
    (/\ pc[s] = "refresh"
     /\ fetchTasks(s, userTimezone[s], Null)
     /\ UNCHANGED <<authUser, today, pendingTasks, failed, logged>>) =>
        /\ tasks' = tasks
        /\ taskList' = taskList
        /\ toast' = toast

C11_NoUserNoWork ==
    [][\A s \in Sessions :
          C11_PassSkipped(s) /\ C11_FetchSkipped(s) /\ C11_RefreshSkipped(s)]_vars

\* A session with nobody signed in has been through the pass and is about to
\* fetch: nothing was read, nothing is in flight, no row has changed although
\* the store holds candidates.
C11_Witness ==
    \E s \in Sessions :
        /\ pc[s] = "ft"
        /\ authUser[s] = Null
        /\ DOMAIN pendingTasks[s] = {}
        /\ inflight[s] = {}
        /\ toast[s] = "none"
        /\ tasks = created
        /\ Candidates(User, LocalDay(now, MountTimezone)) # {}

\* --------------------------------------------------------------- C12
\* C12: every rollover write stores a start_time that, converted to the user's
\* (profile) timezone, has the wall-clock time of the start_time the pass read
\* and falls on the pass's today.
UserZone == getUserTimezone(profile)

C12_Preserved(s, t) ==
    CarryForwardUpdate(s, t, TRUE) =>
        /\ TimeOfDay(tasks'[t].start_time, UserZone)
              = TimeOfDay(pendingTasks[s][t].start_time, UserZone)
        /\ LocalDay(tasks'[t].start_time, UserZone) = today[s].day

C12_TimeOfDayPreserved ==
    [][\A s \in Sessions, t \in TaskIds : C12_Preserved(s, t)]_vars

\* The wall-clock half of C12 alone.
C12_WallClockKept ==
    [][\A s \in Sessions, t \in TaskIds :
          CarryForwardUpdate(s, t, TRUE) =>
              TimeOfDay(tasks'[t].start_time, UserZone)
                 = TimeOfDay(pendingTasks[s][t].start_time, UserZone)]_vars

\* --------------------------------------------------------------- C13
\* C13: a rollover write to a row whose task_date was the local date of its
\* start_time in the user's (profile) timezone leaves a row whose task_date is
\* again the local date of its start_time in that timezone.
Linked(row) == row.task_date = LocalDay(row.start_time, UserZone)

C13_DateMatchesStart ==
    [][\A s \in Sessions, t \in TaskIds :
          (CarryForwardUpdate(s, t, TRUE) /\ Linked(tasks[t])) =>
              Linked(tasks'[t])]_vars

\* --------------------------------------------------------------- C14
\* C14: getUserTimezone returns the stored identifier when it is a valid
\* timezone, and 'UTC' in every other case (absent, empty, or not a timezone).
C14_ValidOrDefault ==
    getUserTimezone(profile) = IF profile \in ValidZones THEN profile ELSE "UTC"

\* What getUserTimezone does: the stored value when it is truthy, else 'UTC'.
C14_TruthyOrDefault ==
    getUserTimezone(profile) = IF profile \in {Null, ""} THEN "UTC" ELSE profile

\* --------------------------------------------------------------- C15
\* C15: a rollover update of a row whose stored task_date is no longer the one
\* the pass read, or whose stored status is no longer pending, has no effect on
\* the row.
C15_ChangedSinceRead(s, t) ==
    \/ tasks[t].task_date # pendingTasks[s][t].task_date
    \/ tasks[t].status # "pending"

C15_StaleWriteNoOp ==
    [][\A s \in Sessions, t \in TaskIds :
          (CarryForwardUpdate(s, t, TRUE) /\ C15_ChangedSinceRead(s, t)) =>
              tasks'[t] = tasks[t]]_vars

\* --------------------------------------------------------------- C16
\* C16: in every reachable state the three rollover fields of a row belong
\* together: either all three have their values at creation, or task_date is a
\* later day D and consecutive_missed_days and start_time are the values a
\* rollover to D stores (count at creation + days to D; D at the time of day of
\* the original start_time).  No row has one of them advanced without the
\* others, whatever updates failed.
C16_RolledTo(t, day) ==
    /\ tasks[t].consecutive_missed_days =
          created[t].consecutive_missed_days + (day - created[t].task_date)
    /\ tasks[t].start_time =
          LocalToUtc(day, TimeOfDay(created[t].start_time, MountTimezone),
                     MountTimezone)

C16_Untouched(t) ==
    /\ tasks[t].task_date = created[t].task_date
    /\ tasks[t].start_time = created[t].start_time
    /\ tasks[t].consecutive_missed_days = created[t].consecutive_missed_days

C16_AtomicRollover ==
    \A t \in TaskIds :
        \/ C16_Untouched(t)
        \/ /\ tasks[t].task_date > created[t].task_date
           /\ C16_RolledTo(t, tasks[t].task_date)

\* A pass has returned with the update of t2 failed and that of t1 applied:
\* t1 has all three fields rolled, t2 none.
C16_Witness ==
    \E s \in Sessions :
        /\ pc[s] = "ft"
        /\ failed[s] = {"t2"}
        /\ C16_Untouched("t2")
        /\ tasks["t1"].task_date = today[s].day
        /\ tasks["t1"].task_date > created["t1"].task_date
        /\ tasks["t1"].start_time # created["t1"].start_time
        /\ tasks["t1"].consecutive_missed_days = 1

\* --------------------------------------------------------------- C17
\* C17: with the passes one after the other, a failed rollover update leaves
\* the row as it was and, while the task is pending, still selected by the
\* candidate query for the pass's today; and every successful rollover write,
\* whatever updates failed before it, stores the count at creation plus the
\* days from the original task_date to the pass's today: the value it would
\* have had with no failed pass.
C17_FailureKeepsRow(s, t) ==
    CarryForwardUpdate(s, t, FALSE) =>
        /\ tasks' = tasks
        /\ t \in failed'[s]
        /\ tasks[t].status = "pending" =>
              t \in Candidates(authUser[s], today[s].day)

C17_RetryAdds(s, t) ==
    CarryForwardUpdate(s, t, TRUE) =>
        /\ tasks[t].task_date = pendingTasks[s][t].task_date
        /\ tasks'[t].consecutive_missed_days =
              created[t].consecutive_missed_days
                + (today[s].day - created[t].task_date)

C17_RetryWithoutLoss ==
    [][\A s \in Sessions, t \in TaskIds :
          C17_FailureKeepsRow(s, t) /\ C17_RetryAdds(s, t)]_vars

\* The update of t2 failed in the pass of one session; the pass of the other
\* session, on a later day, has rolled t2: 3 days from day 1 to day 4.
C17_Witness ==
    \E o \in Sessions, s \in Sessions :
        /\ o # s
        /\ pc[o] = "ft" /\ "t2" \in failed[o]
        /\ pc[s] = "ft" /\ "t2" \in DOMAIN pendingTasks[s] /\ "t2" \notin failed[s]
        /\ today[s].day > today[o].day
        /\ pendingTasks[s]["t2"] = pendingTasks[o]["t2"]
        /\ tasks["t2"].task_date = today[s].day
        /\ tasks["t2"].consecutive_missed_days = 3

\* --------------------------------------------------------------- C18
\* C18: the pass run at mount computes today in the timezone of the user's
\* profile when the profile has one (UTC only when it has none), and every
\* update it applies stores the fields computed in that timezone.
C18_TodayInProfileZone(s) ==
    (CarryForwardRead(s) /\ authUser[s] # Null /\ ~logged'[s]) =>
        today'[s] = startOfTodayInZone(now, UserZone)

C18_FieldsInProfileZone(s, t) ==
    CarryForwardUpdate(s, t, TRUE) =>
        tasks'[t] = ApplyRollover(tasks[t],
                        RolloverFields(startOfTodayInZone(today[s].instant, UserZone),
                                       pendingTasks[s][t], UserZone))

C18_PassUsesProfileZone ==
    [][/\ \A s \in Sessions : C18_TodayInProfileZone(s)
       /\ \A s \in Sessions, t \in TaskIds : C18_FieldsInProfileZone(s, t)]_vars

\* --------------------------------------------------------------- C19
\* C19: the list fetch of initializeTasks runs only when every update of the
\* pass has settled; and when the pass succeeded, the day has not changed
\* since its read and the list query answers, the fetched list holds every
\* task the pass read as a candidate and the store holds no pending task of
\* the user dated before today.
Listed(list, t) == \E i \in DOMAIN list : list[i].id = t

C19_AfterSettling(s) ==
    InitialFetch(s) => inflight[s] = {}

C19_ListComplete(s) ==
    (/\ InitialFetch(s)
     /\ PassSucceeded(s)
     /\ LocalDay(now, MountTimezone) = today[s].day
     /\ toast'[s] # "Error: fetch") =>
        /\ \A t \in DOMAIN pendingTasks[s] : Listed(taskList'[s], t)
        /\ Candidates(authUser[s], today[s].day) = {}

SameBut(t, fields) ==
    /\ \A u \in TaskIds \ {t} : tasks'[u] = tasks[u]
    /\ \A f \in DOMAIN tasks[t] \ fields : tasks'[t][f] = tasks[t][f]

RolloverColumns == {"task_date", "start_time", "consecutive_missed_days"}
CompletionColumns == {"status", "end_time", "total_time_minutes", "image_path"}

C20_RolloverFrame(s, t) ==
    CarryForwardUpdate(s, t, TRUE) => SameBut(t, RolloverColumns)

C20_CompletionFrame(s) ==
    CompleteUpdate(s, TRUE) => SameBut(hc[s].id, CompletionColumns)

C20_OnlyWriters ==
    tasks' # tasks =>
        \/ \E s \in Sessions, t \in TaskIds : CarryForwardUpdate(s, t, TRUE)
        \/ \E s \in Sessions : CompleteUpdate(s, TRUE)

C20_WriterFrames ==
    [][/\ \A s \in Sessions, t \in TaskIds : C20_RolloverFrame(s, t)
       /\ \A s \in Sessions : C20_CompletionFrame(s)
       /\ C20_OnlyWriters]_vars

\* t2 has been rolled forward and then completed: it keeps the rolled fields
\* and its text, while t1 and the other user's t3 are as created.
C20_Witness ==
    /\ tasks["t2"].status = "completed"
    /\ tasks["t2"].end_time # None
    /\ tasks["t2"].task_date > created["t2"].task_date
    /\ tasks["t2"].consecutive_missed_days = 2
    /\ tasks["t2"].title = created["t2"].title
    /\ tasks["t1"] = created["t1"]
    /\ tasks["t3"] = created["t3"]

====
